---------------------------- MODULE Spec2Model ----------------------------
(***************************************************************************)
(* Model of plugins/modules/openvpn_configure.py: the server-configuration *)
(* renderer, the CCD writer and main()'s sequencing of external commands.  *)
(* Text is modelled as TLA+ strings, byte for byte as the code builds it.  *)
(***************************************************************************)
EXTENDS Integers, Sequences, FiniteSets, TLC

(***************************************************************************)
(* Bounds of the model.                                                    *)
(***************************************************************************)
MaxDns == 2
MaxRoutes == 2
MaxCalls == 3
MaxExtra == 1

(***************************************************************************)
(* String helpers (Python's str operations used by the code).              *)
(***************************************************************************)
StartsWith(s, prefix) ==
  Len(s) >= Len(prefix) /\ SubSeq(s, 1, Len(prefix)) = prefix

\* Indexes of the newline characters of s[lo..hi], ascending.
RECURSIVE NewlineIndexes(_, _, _)
NewlineIndexes(s, lo, hi) ==
  IF lo > hi THEN << >>
  ELSE IF lo = hi
         THEN IF SubSeq(s, lo, lo) = "\n" THEN << lo >> ELSE << >>
         ELSE LET mid == (lo + hi) \div 2
              IN NewlineIndexes(s, lo, mid) \o NewlineIndexes(s, mid + 1, hi)

\* The lines of a text, as Python's s.split("\n") gives them without the
\* empty piece after a final newline.
Lines(s) ==
  LET nl == NewlineIndexes(s, 1, Len(s))
      n == Len(nl)
      StartOf(k) == IF k = 1 THEN 1 ELSE nl[k - 1] + 1
      last == IF n = 0 THEN 0 ELSE nl[n]
      full == [k \in 1..n |-> SubSeq(s, StartOf(k), nl[k] - 1)]
  IN IF last < Len(s) THEN full \o << SubSeq(s, last + 1, Len(s)) >> ELSE full

RECURSIVE ConcatAll(_)
ConcatAll(ss) == IF ss = << >> THEN "" ELSE Head(ss) \o ConcatAll(Tail(ss))

RECURSIVE SelectLines(_, _)
SelectLines(ls, prefix) ==
  IF ls = << >> THEN << >>
  ELSE IF StartsWith(Head(ls), prefix)
         THEN << Head(ls) >> \o SelectLines(Tail(ls), prefix)
         ELSE SelectLines(Tail(ls), prefix)

\* Sequences over S of length at most n.
SeqsUpTo(S, n) == UNION { [1..k -> S] : k \in 0..n }

(***************************************************************************)
(* generate_server_config: the rendered text, section by section.          *)
(***************************************************************************)
HeaderSection(p) ==
  "\n# OpenVPN Server Configuration\n"
  \o "port " \o ToString(p.port) \o "\n"
  \o "proto " \o p.protocol \o "\n"
  \o "dev tun\n"
  \o "\n"
  \o "ca " \o p.ca_cert \o "\n"
  \o "cert " \o p.server_cert \o "\n"
  \o "key " \o p.server_key \o "\n"
  \o "dh " \o p.dh_pem \o "\n"
  \o "\n"
  \o "tls-auth " \o p.tls_auth_key \o " 0\n"
  \o "\n"
  \o "cipher " \o p.cipher \o "\n"
  \o "\n"
  \o "server " \o p.vpn_network \o " " \o p.vpn_netmask \o "\n"
  \o "\n"

TopologySection(p) ==
  IF p.topology # "p2p" THEN "topology " \o p.topology \o "\n" ELSE ""

ClientToClientSection(p) ==
  IF p.client_to_client THEN "client-to-client\n" ELSE ""

DuplicateCnSection(p) ==
  IF p.duplicate_cn THEN "duplicate-cn\n" ELSE ""

RedirectGatewaySection(p) ==
  IF p.redirect_gateway THEN "push \"redirect-gateway def1 bypass-dhcp\"\n" ELSE ""

\* Mutant of DnsSection: the servers pushed in reverse order.
DnsSectionReversed(p) ==
  ConcatAll([i \in 1..Len(p.dns_servers) |->
               "push \"dhcp-option DNS "
               \o p.dns_servers[Len(p.dns_servers) + 1 - i] \o "\"\n"])

DnsSection(p) ==
  ConcatAll([i \in 1..Len(p.dns_servers) |->
               "push \"dhcp-option DNS " \o p.dns_servers[i] \o "\"\n"])

RouteSection(p) ==
  ConcatAll([i \in 1..Len(p.routes) |->
               "push \"route " \o p.routes[i] \o "\"\n"])

MssfixSection(p) ==
  IF p.mssfix THEN "mssfix\n" ELSE ""

\* Mutant of FragmentSection: the comparison admits 0.
FragmentSectionFromZero(p) ==
  IF p.fragment >= 0 THEN "fragment " \o ToString(p.fragment) \o "\n" ELSE ""

FragmentSection(p) ==
  IF p.fragment > 0 THEN "fragment " \o ToString(p.fragment) \o "\n" ELSE ""

default_server_settings ==
  << "persist-key", "persist-tun", "user nobody", "group nogroup",
     "status openvpn-status.log", "verb 3", "mute 20", "keepalive 10 120" >>

DefaultsSection ==
  ConcatAll([i \in 1..Len(default_server_settings) |->
               default_server_settings[i] \o "\n"])

ExtraSection(p) ==
  ConcatAll([i \in 1..Len(p.extra_server_options) |->
               p.extra_server_options[i] \o "\n"])

CompressSection(p) ==
  IF p.enable_compress THEN "compress lz4\n" ELSE ""

TrailerSection ==
  "\n"
  \o "user nobody\n"
  \o "group nogroup\n"
  \o "\n"
  \o "persist-key\n"
  \o "persist-tun\n"
  \o "\n"
  \o "status openvpn-status.log\n"
  \o "verb 3\n"

\* config_content as generate_server_config builds it.
RenderConfig(p) ==
  HeaderSection(p)
  \o TopologySection(p)
  \o ClientToClientSection(p)
  \o DuplicateCnSection(p)
  \o RedirectGatewaySection(p)
  \o DnsSection(p)
  \o RouteSection(p)
  \o MssfixSection(p)
  \o FragmentSection(p)
  \o DefaultsSection
  \o ExtraSection(p)
  \o CompressSection(p)
  \o TrailerSection


(***************************************************************************)
(* State.                                                                  *)
(***************************************************************************)
VARIABLES
  params,      \* module.params of the current invocation (with module.check_mode)
  configFile,  \* the file at params.config_file: [exists, content, writes]
  ret,         \* what the last direct call of a writer function returned
  calls,       \* number of direct calls made so far
  lastParams,  \* the params of the last direct call (NoParams before the first)
  otherWrote,  \* whether another writer touched the files since the last call
  host,        \* packages, PKI artifacts, CCD files, NAT table, service
  pre,         \* host and configFile as they were when the invocation started
  pc,          \* main()'s position
  changed,     \* main()'s local 'changed'
  message,     \* main()'s local 'message' (a list of strings)
  status,      \* main()'s local 'status'
  outcome,     \* how the invocation ended: exit_json or fail_json, with its arguments
  log,         \* the external commands the invocation has run, with exit codes
  loc,         \* locals of the function main() is in
  runs         \* number of invocations started

cfgVars == << ret, calls, lastParams, otherWrote >>
mainVars == << host, pre, pc, changed, message, status, outcome, log, loc, runs >>
vars == << params, configFile, ret, calls, lastParams, otherWrote,
           host, pre, pc, changed, message, status, outcome, log, loc, runs >>

NoFile == [exists |-> FALSE, content |-> "", writes |-> 0]
NoRet == [called |-> FALSE, changed |-> FALSE, path |-> ""]
NoParams == [state |-> "none"]
NoStatus == "None"
NoOutcome == [kind |-> "none"]
NoLoc == [fn |-> "main"]

Clients == {"client1", "client2"}

\* A host on which nothing is installed or configured.
FreshHost ==
  [ os |-> "debian", pkgs |-> {}, pki |-> {},
    ccdDir |-> FALSE, ccd |-> [c \in Clients |-> NoFile],
    ipForward |-> FALSE, natRules |-> << >>, savedRules |-> << >>,
    running |-> FALSE, svcOps |-> 0 ]

\* main() is not running: the state of the specifications of single functions.
MainIdle ==
  /\ host = FreshHost
  /\ pre = [host |-> FreshHost, configFile |-> NoFile]
  /\ pc = "idle"
  /\ changed = FALSE
  /\ message = << >>
  /\ status = NoStatus
  /\ outcome = NoOutcome
  /\ log = << >>
  /\ loc = NoLoc
  /\ runs = 0

(***************************************************************************)
(* Option values the model draws from.  Defaults are those of main()'s     *)
(* argument_spec.                                                          *)
(***************************************************************************)
DnsValues == {"8.8.8.8", "8.8.4.4"}
RouteValues == {"10.0.0.0 255.0.0.0", "192.168.1.0 255.255.255.0"}
ExtraValues == {"sndbuf 0", "topology subnet", "fragment 1400",
                "push \"route 172.16.0.0 255.240.0.0\"",
                "push \"dhcp-option DNS 1.1.1.1\""}
Topologies == {"subnet", "net30", "p2p"}
Fragments == {0, 1500}
States == {"present", "absent"}

DefaultParams ==
  [ mode |-> "server",
    action |-> "configure",
    check_mode |-> FALSE,
    enable_nat |-> TRUE,
    ccd_dir |-> "/etc/openvpn/ccd",
    ccd |-> << >>,
    generate_pki |-> FALSE,
    pki_dir |-> "/etc/openvpn/easy-rsa",
    config_file |-> "/etc/openvpn/server.conf",
    ca_cert |-> "/etc/openvpn/ca.crt",
    server_cert |-> "/etc/openvpn/server.crt",
    server_key |-> "/etc/openvpn/server.key",
    dh_pem |-> "/etc/openvpn/dh.pem",
    port |-> 1194,
    protocol |-> "udp",
    cipher |-> "AES-256-CBC",
    vpn_network |-> "10.8.0.0/24",
    vpn_netmask |-> "255.255.255.0",
    enable_compress |-> TRUE,
    tls_auth_key |-> "/etc/openvpn/ta.key",
    client_to_client |-> FALSE,
    topology |-> "subnet",
    mssfix |-> TRUE,
    fragment |-> 0,
    routes |-> << >>,
    redirect_gateway |-> TRUE,
    dns_servers |-> << "8.8.8.8", "8.8.4.4" >>,
    duplicate_cn |-> FALSE,
    extra_server_options |-> << >>,
    state |-> "present" ]

\* The option sets the renderer is exercised on: every combination of the
\* list options with the redirect-gateway push next to them, and every combination of
\* topology, fragment and the flags, each with every list of extra options.
ListParams ==
  { [DefaultParams EXCEPT
       !.dns_servers = d, !.routes = r, !.extra_server_options = x,
       !.redirect_gateway = b] :
     d \in SeqsUpTo(DnsValues, MaxDns), r \in SeqsUpTo(RouteValues, MaxRoutes),
     x \in SeqsUpTo(ExtraValues, MaxExtra), b \in BOOLEAN }

FlagParams ==
  { [DefaultParams EXCEPT
       !.topology = t, !.fragment = f, !.extra_server_options = x,
       !.client_to_client = b[1], !.duplicate_cn = b[2],
       !.redirect_gateway = b[3], !.mssfix = b[4], !.enable_compress = b[5]] :
     t \in Topologies, f \in Fragments,
     x \in SeqsUpTo(ExtraValues, MaxExtra), b \in [1..5 -> BOOLEAN] }

RenderParams == ListParams \cup FlagParams

(***************************************************************************)
(* generate_server_config: comparison with the file on disk and the write. *)
(***************************************************************************)
\* Mutant of ConfigChanged: the existing content is never compared.
ConfigChangedAlways(file, content) == TRUE

ConfigChanged(file, content) ==
  IF ~file.exists THEN TRUE ELSE file.content # content

\* Mutant of ShouldWrite: the write is suppressed whenever nothing changed.
ShouldWriteOnlyChanged(config_changed, p) == config_changed

ShouldWrite(config_changed, p) ==
  config_changed \/ p.state = "present"

WriteFile(file, content) ==
  [exists |-> TRUE, content |-> content, writes |-> file.writes + 1]

\* The call's effect on the file and its return value (config_changed, config_path).
ServerConfigResult(p, file) ==
  LET config_content == RenderConfig(p)
      config_changed == ConfigChanged(file, config_content)
  IN [ file |-> IF ShouldWrite(config_changed, p)
                  THEN WriteFile(file, config_content)
                  ELSE file,
       changed |-> config_changed,
       path |-> p.config_file ]

GenerateServerConfig ==
  LET r == ServerConfigResult(params, configFile)
  IN /\ configFile' = r.file
     /\ ret' = [called |-> TRUE, changed |-> r.changed, path |-> r.path]
     /\ calls' = calls + 1
     /\ lastParams' = params
     /\ otherWrote' = FALSE
     /\ UNCHANGED << params, mainVars >>

(***************************************************************************)
(* SpecRender: one render of each option set onto an absent file.          *)
(***************************************************************************)
InitRender ==
  /\ params \in RenderParams
  /\ configFile = NoFile
  /\ ret = NoRet
  /\ calls = 0
  /\ lastParams = NoParams
  /\ otherWrote = FALSE
  /\ MainIdle

NextRender == calls = 0 /\ GenerateServerConfig

SpecRender == InitRender /\ [][NextRender]_vars

(***************************************************************************)
(* SpecConfig: repeated calls of generate_server_config on one path, with  *)
(* the options changing between calls and another writer of the file.      *)
(***************************************************************************)
Ciphers == {"AES-256-CBC", "AES-128-CBC"}

ConfigParams ==
  { [DefaultParams EXCEPT !.cipher = c, !.state = st, !.topology = t,
                          !.extra_server_options = x] :
     c \in Ciphers, st \in States, t \in {"subnet", "p2p"},
     x \in {<< >>, << "sndbuf 0" >>} }

ForeignContent == "# edited by hand\n"

InitConfig ==
  /\ params \in ConfigParams
  /\ configFile = NoFile
  /\ ret = NoRet
  /\ calls = 0
  /\ lastParams = NoParams
  /\ otherWrote = FALSE
  /\ MainIdle

CallGenerate == calls < MaxCalls /\ GenerateServerConfig

\* The next invocation comes with other options.
SetParams ==
  /\ params' \in ConfigParams \ {params}
  /\ UNCHANGED << configFile, ret, calls, lastParams, otherWrote, mainVars >>

\* Something else rewrites or removes the file.
OtherWriter ==
  /\ ~otherWrote
  /\ \/ configFile' = [configFile EXCEPT !.exists = TRUE, !.content = ForeignContent]
     \/ configFile.exists /\ configFile' = [configFile EXCEPT !.exists = FALSE, !.content = ""]
  /\ otherWrote' = TRUE
  /\ UNCHANGED << params, ret, calls, lastParams, mainVars >>

NextConfig == CallGenerate \/ SetParams \/ OtherWriter

SpecConfig == InitConfig /\ [][NextConfig]_vars

\* A step that is a call of generate_server_config.
IsCall == calls' = calls + 1
Written == configFile'.writes = configFile.writes + 1

\* C4: rendering is deterministic and idempotent: a call that immediately
\* follows a call with the same options on the same path, with no other
\* writer in between, reports changed = false and leaves the file content
\* what the first call wrote.
C4_Idempotent ==
  [][ (IsCall /\ ret.called /\ lastParams = params /\ ~otherWrote)
        => /\ ret'.changed = FALSE
           /\ configFile'.exists
           /\ configFile'.content = configFile.content
           /\ configFile'.content = RenderConfig(params) ]_vars

C4_Witness ==
  /\ calls >= 2
  /\ lastParams = params
  /\ ~otherWrote
  /\ ~ret.changed
  /\ configFile.writes >= 2
  /\ configFile.content = RenderConfig(params)

\* C5: changed is true exactly when the target was absent or its content
\* differed from the rendered text before the call; the returned path is the
\* configured one; the file is written exactly when changed is true or state
\* is 'present'; after a write the content is the rendered text, and without
\* one the file is untouched.
C5_ChangedAndWrite ==
  [][ IsCall =>
        LET content == RenderConfig(params)
            differs == ~configFile.exists \/ configFile.content # content
        IN /\ ret'.changed = differs
           /\ ret'.path = params.config_file
           /\ Written <=> (differs \/ params.state = "present")
           /\ Written => configFile'.exists /\ configFile'.content = content
           /\ ~Written => configFile' = configFile ]_vars

C5_Witness ==
  /\ calls >= 2
  /\ params.state = "absent"
  /\ lastParams = params
  /\ ~otherWrote
  /\ ~ret.changed
  /\ configFile.writes = 1
  /\ configFile.content = RenderConfig(params)

\* The document the renderer produced, and its directive lines.
Rendered == ret.called /\ configFile.exists
DocLines == Lines(configFile.content)


IsDirective(l) == l # "" /\ ~StartsWith(l, "#")

RECURSIVE Directives(_)
Directives(ls) ==
  IF ls = << >> THEN << >>
  ELSE IF IsDirective(Head(ls))
         THEN << Head(ls) >> \o Directives(Tail(ls))
         ELSE Directives(Tail(ls))

\* Indexes of the lines of ls that start with prefix, ascending.
RECURSIVE PositionsFrom(_, _, _)
PositionsFrom(ls, prefix, i) ==
  IF i > Len(ls) THEN << >>
  ELSE IF StartsWith(ls[i], prefix)
         THEN << i >> \o PositionsFrom(ls, prefix, i + 1)
         ELSE PositionsFrom(ls, prefix, i + 1)

Positions(ls, prefix) == PositionsFrom(ls, prefix, 1)

Opt(b, line) == IF b THEN << line >> ELSE << >>

DnsPrefix == "push \"dhcp-option DNS "
RoutePrefix == "push \"route "
DnsLine(x) == "push \"dhcp-option DNS " \o x \o "\""
RouteLine(x) == "push \"route " \o x \o "\""
DnsLinesOf(d) == [i \in 1..Len(d) |-> DnsLine(d[i])]
RouteLinesOf(r) == [i \in 1..Len(r) |-> RouteLine(r[i])]

(***************************************************************************)
(* C6.  The section order the specification states, as directive lines.    *)
(***************************************************************************)
SectionsOfSpec(p) ==
  << "port " \o ToString(p.port), "proto " \o p.protocol, "dev tun",
     "ca " \o p.ca_cert, "cert " \o p.server_cert, "key " \o p.server_key,
     "dh " \o p.dh_pem, "tls-auth " \o p.tls_auth_key \o " 0",
     "cipher " \o p.cipher,
     "server " \o p.vpn_network \o " " \o p.vpn_netmask >>
  \o Opt(p.topology # "p2p", "topology " \o p.topology)
  \o Opt(p.client_to_client, "client-to-client")
  \o Opt(p.duplicate_cn, "duplicate-cn")
  \o Opt(p.redirect_gateway, "push \"redirect-gateway def1 bypass-dhcp\"")
  \o DnsLinesOf(p.dns_servers)
  \o RouteLinesOf(p.routes)
  \o Opt(p.mssfix, "mssfix")
  \o Opt(p.fragment > 0, "fragment " \o ToString(p.fragment))
  \o default_server_settings
  \o p.extra_server_options
  \o Opt(p.enable_compress, "compress lz4")

\* C6: the directive lines of the rendered document are exactly the sections
\* port/proto/dev, PKI paths, cipher, server, [topology], [client-to-client],
\* [duplicate-cn], [redirect-gateway], DNS pushes, route pushes, [mssfix],
\* [fragment], the hardening defaults, the extra options, [compress], in this
\* order, and nothing follows the compression position.
C6_SectionOrder ==
  Rendered => Directives(DocLines) = SectionsOfSpec(params)

\* What the code renders instead: the same sections followed by six more
\* directive lines (user, group, persist-key, persist-tun, status, verb).
C6_TrailingBlock ==
  Rendered =>
    Directives(DocLines) =
      SectionsOfSpec(params)
      \o << "user nobody", "group nogroup", "persist-key", "persist-tun",
            "status openvpn-status.log", "verb 3" >>

(***************************************************************************)
(* C7.  DNS and route push lines.                                          *)
(***************************************************************************)
\* C7 as stated: the document holds exactly len(d) DNS push lines and len(r)
\* route push lines, the i-th carrying the i-th entry, every DNS push line
\* before every route push line.
C7_PushLinesExact ==
  Rendered =>
    LET ls == DocLines
        dpos == Positions(ls, DnsPrefix)
        rpos == Positions(ls, RoutePrefix)
    IN /\ [i \in 1..Len(dpos) |-> ls[dpos[i]]] = DnsLinesOf(params.dns_servers)
       /\ [j \in 1..Len(rpos) |-> ls[rpos[j]]] = RouteLinesOf(params.routes)
       /\ \A i \in 1..Len(dpos) : \A j \in 1..Len(rpos) : dpos[i] < rpos[j]

\* C7 amended: the document's DNS (route) push lines are the len(d) (len(r))
\* lines of the list, in input order with duplicates kept, followed by the
\* lines of that form passed in extra_server_options; every DNS push line of
\* the list precedes every route push line of the list.
C7_PushLines ==
  Rendered =>
    LET d == params.dns_servers
        r == params.routes
        x == params.extra_server_options
        ls == DocLines
        dpos == Positions(ls, DnsPrefix)
        rpos == Positions(ls, RoutePrefix)
    IN /\ [i \in 1..Len(dpos) |-> ls[dpos[i]]]
            = DnsLinesOf(d) \o SelectLines(x, DnsPrefix)
       /\ [j \in 1..Len(rpos) |-> ls[rpos[j]]]
            = RouteLinesOf(r) \o SelectLines(x, RoutePrefix)
       /\ \A i \in 1..Len(d) : \A j \in 1..Len(r) : dpos[i] < rpos[j]

C7_Witness ==
  /\ Rendered
  /\ Len(params.dns_servers) = 2
  /\ params.dns_servers[1] # params.dns_servers[2]
  /\ Len(params.routes) >= 1
  /\ SelectLines(DocLines, DnsPrefix) = DnsLinesOf(params.dns_servers)

(***************************************************************************)
(* C8.  Topology and fragment lines.                                       *)
(***************************************************************************)
\* C8 as stated: no line starts with 'topology' when topology is p2p and
\* exactly one line, 'topology <t>', otherwise; no line starts with
\* 'fragment' when fragment is 0 and exactly one, 'fragment <n>', when n > 0.
C8_TopologyFragmentExact ==
  Rendered =>
    LET ls == DocLines
    IN /\ SelectLines(ls, "topology") =
            Opt(params.topology # "p2p", "topology " \o params.topology)
       /\ SelectLines(ls, "fragment") =
            Opt(params.fragment > 0, "fragment " \o ToString(params.fragment))

\* C8 amended: apart from lines passed in extra_server_options, the document
\* holds no line starting with 'topology' for p2p and exactly one line
\* 'topology <t>' for subnet/net30; no line starting with 'fragment' for 0 and
\* exactly one line 'fragment <n>' for n > 0.
C8_TopologyFragment ==
  Rendered =>
    LET ls == DocLines
    IN /\ SelectLines(ls, "topology") =
            Opt(params.topology # "p2p", "topology " \o params.topology)
            \o SelectLines(params.extra_server_options, "topology")
       /\ SelectLines(ls, "fragment") =
            Opt(params.fragment > 0, "fragment " \o ToString(params.fragment))
            \o SelectLines(params.extra_server_options, "fragment")

C8_Witness ==
  /\ Rendered
  /\ params.topology = "p2p"
  /\ params.fragment = 1500
  /\ params.extra_server_options = << >>
  /\ LET ls == DocLines
     IN /\ SelectLines(ls, "topology") = << >>
        /\ SelectLines(ls, "fragment") = << "fragment 1500" >>


(***************************************************************************)
(* write_ccd_files.                                                        *)
(***************************************************************************)
RECURSIVE Join(_, _)
Join(items, sep) ==
  IF items = << >> THEN ""
  ELSE IF Len(items) = 1 THEN Head(items)
  ELSE Head(items) \o sep \o Join(Tail(items), sep)

\* A CCD value is a string or a list: [kind |-> "str", text] or [kind |-> "list", items].
Str(t) == [kind |-> "str", text |-> t]
List(xs) == [kind |-> "list", items |-> xs]

IfconfigValue(value) ==
  IF value.kind = "list" THEN Join(value.items, " ") ELSE value.text

CcdContent(value) == "ifconfig-push " \o IfconfigValue(value) \o "\n"

\* Mutant of CcdNeedsWrite: the file is rewritten on every call.
CcdNeedsWriteAlways(file, content) == TRUE

CcdNeedsWrite(file, content) ==
  ~file.exists \/ file.content # content

\* One iteration of the loop over ccd.items(), without failure:
\* the files, 'changed' and 'messages' after it.
CcdIteration(st, entry) ==
  LET content == CcdContent(entry.value)
      file == st.files[entry.client]
  IN IF CcdNeedsWrite(file, content)
       THEN [ files |-> [st.files EXCEPT ![entry.client] = WriteFile(file, content)],
              changed |-> TRUE,
              messages |-> Append(st.messages, "Wrote CCD for " \o entry.client) ]
       ELSE st

RECURSIVE CcdLoop(_, _)
CcdLoop(st, entries) ==
  IF entries = << >> THEN st
  ELSE CcdLoop(CcdIteration(st, Head(entries)), Tail(entries))

\* A call in which no file operation fails: the host after it and the
\* returned (changed, message).
WriteCcdFiles(h, p) ==
  IF p.ccd = << >>
    THEN [host |-> h, changed |-> FALSE, msg |-> "No CCD entries"]
    ELSE LET st == CcdLoop([files |-> h.ccd, changed |-> FALSE, messages |-> << >>],
                           p.ccd)
         IN [ host |-> [h EXCEPT !.ccdDir = TRUE, !.ccd = st.files],
              changed |-> st.changed,
              msg |-> Join(st.messages, " | ") ]

(***************************************************************************)
(* SpecCcd: repeated calls of write_ccd_files, with the mapping changing   *)
(* between calls and another writer of the CCD files.                      *)
(***************************************************************************)
CcdMaps ==
  { << >>,
    << [client |-> "client1", value |-> List(<< "10.8.0.10", "255.255.255.255" >>)] >>,
    << [client |-> "client1", value |-> Str("10.8.0.10 255.255.255.255")],
       [client |-> "client2", value |-> List(<< "10.8.0.11", "255.255.255.255" >>)] >>,
    << [client |-> "client2", value |-> Str("10.8.0.12")],
       [client |-> "client1", value |-> List(<< "10.8.0.13" >>)] >> }

CcdParams == { [DefaultParams EXCEPT !.ccd = m] : m \in CcdMaps }

InitCcd ==
  /\ params \in CcdParams
  /\ configFile = NoFile
  /\ ret = NoRet
  /\ calls = 0
  /\ lastParams = NoParams
  /\ otherWrote = FALSE
  /\ MainIdle

CallWriteCcd ==
  /\ calls < MaxCalls
  /\ LET r == WriteCcdFiles(host, params)
     IN /\ host' = r.host
        /\ ret' = [called |-> TRUE, changed |-> r.changed, msg |-> r.msg]
  /\ calls' = calls + 1
  /\ lastParams' = params
  /\ otherWrote' = FALSE
  /\ UNCHANGED << params, configFile, pre, pc, changed, message, status,
                  outcome, log, loc, runs >>

\* The next call comes with another mapping.
SetCcd ==
  /\ params' \in CcdParams \ {params}
  /\ UNCHANGED << configFile, cfgVars, mainVars >>

\* Something else rewrites or removes one client's file.
OtherCcdWriter ==
  /\ ~otherWrote
  /\ \E c \in Clients :
       \/ host' = [host EXCEPT !.ccd[c].exists = TRUE,
                               !.ccd[c].content = ForeignContent]
       \/ /\ host.ccd[c].exists
          /\ host' = [host EXCEPT !.ccd[c].exists = FALSE, !.ccd[c].content = ""]
  /\ otherWrote' = TRUE
  /\ UNCHANGED << params, configFile, ret, calls, lastParams, pre, pc, changed,
                  message, status, outcome, log, loc, runs >>

NextCcd == CallWriteCcd \/ SetCcd \/ OtherCcdWriter

SpecCcd == InitCcd /\ [][NextCcd]_vars

\* The content the specification gives for a value: the scalar itself, or
\* the list's items separated by single spaces.
RECURSIVE SpaceSeparated(_, _)
SpaceSeparated(items, k) ==
  IF k = 0 THEN ""
  ELSE IF k = 1 THEN items[1]
  ELSE SpaceSeparated(items, k - 1) \o " " \o items[k]

IfconfigPushLine(value) ==
  "ifconfig-push "
  \o (IF value.kind = "list" THEN SpaceSeparated(value.items, Len(value.items))
                             ELSE value.text)
  \o "\n"

CcdWritten(c) == host'.ccd[c].writes = host.ccd[c].writes + 1
CcdUntouched(c) == host'.ccd[c] = host.ccd[c]

\* C9: after a call with mapping M every client of M has a file holding
\* exactly 'ifconfig-push <value>\n' (list values joined by single spaces);
\* a client's file is written only when it was absent or differed; a second
\* call with the same M and nothing in between writes no file, reports no
\* 'Wrote CCD' message and returns changed = false.
C9_CcdIdempotent ==
  [][ IsCall =>
        /\ \A i \in 1..Len(params.ccd) :
             LET e == params.ccd[i]
             IN /\ host'.ccd[e.client].exists
                /\ host'.ccd[e.client].content = IfconfigPushLine(e.value)
                /\ CcdWritten(e.client) <=>
                     (~host.ccd[e.client].exists
                      \/ host.ccd[e.client].content # IfconfigPushLine(e.value))
                /\ ~CcdWritten(e.client) => CcdUntouched(e.client)
        /\ \A c \in Clients :
             (\A i \in 1..Len(params.ccd) : params.ccd[i].client # c)
               => CcdUntouched(c)
        /\ ret'.changed <=> \E c \in Clients : CcdWritten(c)
        /\ (ret.called /\ lastParams = params /\ ~otherWrote)
             => /\ \A c \in Clients : CcdUntouched(c)
                /\ ret'.changed = FALSE
                /\ ret'.msg \in {"", "No CCD entries"} ]_vars

C9_Witness ==
  /\ calls >= 2
  /\ lastParams = params
  /\ Len(params.ccd) = 2
  /\ ~otherWrote
  /\ ~ret.changed
  /\ ret.msg = ""
  /\ host.ccd["client1"].writes = 1
  /\ host.ccd["client1"].content = "ifconfig-push 10.8.0.10 255.255.255.255\n"
  /\ host.ccd["client2"].writes = 1


(***************************************************************************)
(* main(): the invocation as a sequence of steps.  Every external command  *)
(* is one step whose exit code the environment chooses; a command that     *)
(* exits non-zero has no effect on the host.                               *)
(***************************************************************************)
MaxRuns == 2

Actions == {"install", "configure", "start", "stop", "restart", "status"}
ServiceActions == {"start", "stop", "restart", "status"}
ExitCodes == {0, 1}

\* module.fail_json and module.exit_json end the process.
FailJson(msg) ==
  /\ outcome' = [kind |-> "fail_json", msg |-> msg]
  /\ pc' = "done"

Run(cmd, rc) == log' = Append(log, [cmd |-> cmd, rc |-> rc])

\* The guards of main()'s four blocks.
InstallNeeded(p, h) == ~("openvpn" \in h.pkgs) /\ p.action = "install"
PkiRequested(p) == p.generate_pki /\ p.action = "install"
\* Mutant of ConfigureRequested: the configure block also consults the mode.
ConfigureRequestedAsServer(p) == p.action = "configure" /\ p.mode = "server"

ConfigureRequested(p) == p.action = "configure"
ServiceRequested(p) == p.action \in ServiceActions

\* Mutant of NotCheckMode: check mode is not consulted.
CheckModeIgnored(p) == TRUE

\* 'if not module.check_mode'.
NotCheckMode(p) == ~p.check_mode

\* --- check_openvpn_installed and install_openvpn ---------------------------
MainInstall(p) ==
  /\ pc = "main_install"
  /\ Run("which openvpn", IF "openvpn" \in host.pkgs THEN 0 ELSE 1)
  /\ IF InstallNeeded(p, host)
       THEN IF NotCheckMode(p)
              THEN /\ pc' = "install_openvpn"
                   /\ UNCHANGED << changed, message >>
              ELSE /\ changed' = TRUE
                   /\ message' = Append(message, "OpenVPN installed")
                   /\ pc' = "main_pki"
       ELSE /\ pc' = "main_pki"
            /\ UNCHANGED << changed, message >>
  /\ UNCHANGED << params, configFile, cfgVars, host, pre, status, outcome, loc, runs >>

InstallCommand(h) ==
  IF h.os = "debian" THEN "apt-get update && apt-get install -y openvpn easy-rsa"
  ELSE "yum install -y openvpn easy-rsa"

InstallOpenvpn(p) ==
  /\ pc = "install_openvpn"
  /\ IF host.os \notin {"debian", "redhat"}
       THEN /\ FailJson("Unsupported operating system")
            /\ UNCHANGED << host, changed, message, log >>
       ELSE \E rc \in ExitCodes :
              /\ Run(InstallCommand(host), rc)
              /\ IF rc # 0
                   THEN /\ FailJson("Failed to install OpenVPN: ")
                        /\ UNCHANGED << host, changed, message >>
                   ELSE /\ host' = [host EXCEPT !.pkgs = @ \cup {"openvpn", "easy-rsa"}]
                        /\ changed' = TRUE
                        /\ message' = Append(message, "OpenVPN installed")
                        /\ pc' = "main_pki"
                        /\ UNCHANGED outcome
  /\ UNCHANGED << params, configFile, cfgVars, pre, status, loc, runs >>

\* --- generate_pki -----------------------------------------------------------
PkiRoot(p) == p.pki_dir \o "/pki"
CaCrt(p) == p.pki_dir \o "/pki/ca.crt"
IssuedCrt(p) == p.pki_dir \o "/pki/issued/server.crt"
PrivateKey(p) == p.pki_dir \o "/pki/private/server.key"
DhPem(p) == p.pki_dir \o "/pki/dh.pem"

files_to_copy(p) ==
  << [src |-> CaCrt(p), dst |-> p.ca_cert],
     [src |-> IssuedCrt(p), dst |-> p.server_cert],
     [src |-> PrivateKey(p), dst |-> p.server_key],
     [src |-> DhPem(p), dst |-> p.dh_pem] >>

\* Everything generate_pki can create.
AllPki(p) ==
  { p.pki_dir, PkiRoot(p), CaCrt(p), IssuedCrt(p), PrivateKey(p), DhPem(p),
    p.tls_auth_key, p.ca_cert, p.server_cert, p.server_key, p.dh_pem }

MainPki(p) ==
  /\ pc = "main_pki"
  /\ IF PkiRequested(p)
       THEN IF NotCheckMode(p)
              THEN /\ pc' = "pki_begin"
                   /\ loc' = [fn |-> "generate_pki", message |-> << >>]
                   /\ UNCHANGED message
              ELSE /\ message' = Append(message, "Would generate PKI")
                   /\ pc' = "main_config"
                   /\ UNCHANGED loc
       ELSE /\ pc' = "main_config"
            /\ UNCHANGED << message, loc >>
  /\ UNCHANGED << params, configFile, cfgVars, host, pre, changed, status,
                  outcome, log, runs >>

\* os.makedirs(pki_dir) and the 'which easyrsa' check.
PkiBegin(p) ==
  /\ pc = "pki_begin"
  /\ host' = [host EXCEPT !.pki = @ \cup {p.pki_dir}]
  /\ LET rc == IF "easy-rsa" \in host.pkgs THEN 0 ELSE 1
     IN /\ Run("which easyrsa", rc)
        /\ IF rc # 0
             THEN FailJson("Easy-RSA not found. Please install it first.")
             ELSE pc' = "pki_init" /\ UNCHANGED outcome
  /\ UNCHANGED << params, configFile, cfgVars, pre, changed, message, status,
                  loc, runs >>

\* Mutant of PkiStepNeeded: the existence check is dropped.
PkiStepAlways(artifact, h) == TRUE

\* 'if not os.path.exists(artifact)'.
PkiStepNeeded(artifact, h) == artifact \notin h.pki

\* One generation step: skipped when its artifact exists; otherwise the
\* command runs, and a non-zero exit ends the invocation.
PkiCommand(at, next, artifact, cmd, creates, failMsg, okMsg) ==
  /\ pc = at
  /\ IF ~PkiStepNeeded(artifact, host)
       THEN /\ pc' = next
            /\ UNCHANGED << host, log, loc, outcome >>
       ELSE \E rc \in ExitCodes :
              /\ Run(cmd, rc)
              /\ IF rc # 0
                   THEN FailJson(failMsg) /\ UNCHANGED << host, loc >>
                   ELSE /\ host' = [host EXCEPT !.pki = @ \cup creates]
                        /\ loc' = [loc EXCEPT !.message = @ \o okMsg]
                        /\ pc' = next
                        /\ UNCHANGED outcome
  /\ UNCHANGED << params, configFile, cfgVars, pre, changed, message, status, runs >>

\* The commands of the generation steps.
InitPkiCmd(p) == "cd " \o p.pki_dir \o " && easyrsa init-pki"
BuildCaCmd(p) == "cd " \o p.pki_dir \o " && easyrsa build-ca nopass"
GenReqCmd(p) == "cd " \o p.pki_dir \o " && easyrsa gen-req server nopass"
SignReqCmd(p) == "cd " \o p.pki_dir \o " && easyrsa sign-req server server nopass"
GenDhCmd(p) == "cd " \o p.pki_dir \o " && easyrsa gen-dh"
GenKeyCmd(p) == "openvpn --genkey --secret " \o p.tls_auth_key

PkiInit(p) ==
  PkiCommand("pki_init", "pki_ca", PkiRoot(p),
             InitPkiCmd(p),
             {PkiRoot(p)}, "Failed to initialize PKI: ", << "PKI initialized" >>)

PkiBuildCa(p) ==
  PkiCommand("pki_ca", "pki_genreq", CaCrt(p),
             BuildCaCmd(p),
             {CaCrt(p)}, "Failed to generate CA: ", << "CA certificate generated" >>)

\* gen-req runs when the issued certificate is missing; sign-req follows it
\* under the same guard.
PkiGenReq(p) ==
  /\ pc = "pki_genreq"
  /\ IF ~PkiStepNeeded(IssuedCrt(p), host)
       THEN /\ pc' = "pki_dh"
            /\ UNCHANGED << host, log, outcome >>
       ELSE \E rc \in ExitCodes :
              /\ Run(GenReqCmd(p), rc)
              /\ IF rc # 0
                   THEN FailJson("Failed to generate server request: ") /\ UNCHANGED host
                   ELSE /\ host' = [host EXCEPT !.pki = @ \cup {PrivateKey(p)}]
                        /\ pc' = "pki_signreq"
                        /\ UNCHANGED outcome
  /\ UNCHANGED << params, configFile, cfgVars, pre, changed, message, status, loc, runs >>

PkiSignReq(p) ==
  /\ pc = "pki_signreq"
  /\ \E rc \in ExitCodes :
       /\ Run(SignReqCmd(p), rc)
       /\ IF rc # 0
            THEN FailJson("Failed to sign server certificate: ") /\ UNCHANGED << host, loc >>
            ELSE /\ host' = [host EXCEPT !.pki = @ \cup {IssuedCrt(p)}]
                 /\ loc' = [loc EXCEPT !.message = Append(@, "Server certificate generated")]
                 /\ pc' = "pki_dh"
                 /\ UNCHANGED outcome
  /\ UNCHANGED << params, configFile, cfgVars, pre, changed, message, status, runs >>

PkiGenDh(p) ==
  PkiCommand("pki_dh", "pki_ta", DhPem(p),
             GenDhCmd(p),
             {DhPem(p)}, "Failed to generate DH parameters: ",
             << "Diffie-Hellman parameters generated" >>)

PkiTlsKey(p) ==
  PkiCommand("pki_ta", "pki_copy", p.tls_auth_key,
             GenKeyCmd(p),
             {p.tls_auth_key}, "Failed to generate TLS auth key: ",
             << "TLS authentication key generated" >>)

\* The copy loop: a pair is copied when its source exists and its destination
\* does not; a copy that raises ends the invocation, earlier copies stay.
PkiCopy(p) ==
  /\ pc = "pki_copy"
  /\ LET pairs == files_to_copy(p)
         needed == { i \in 1..Len(pairs) :
                       pairs[i].src \in host.pki /\ ~(pairs[i].dst \in host.pki) }
     IN \E k \in needed \cup {0} :
          /\ host' = [host EXCEPT !.pki =
                        @ \cup { pairs[i].dst : i \in { j \in needed : k = 0 \/ j < k } }]
          /\ Run("copy", IF k = 0 THEN 0 ELSE 1)
          /\ IF k # 0
               THEN FailJson("Failed to copy " \o pairs[k].src \o " to " \o pairs[k].dst \o ": ")
               ELSE pc' = "pki_chmod" /\ UNCHANGED outcome
  /\ UNCHANGED << params, configFile, cfgVars, pre, changed, message, status, loc, runs >>

\* os.chmod raises when one of the five files is missing; on success
\* generate_pki returns (True, message) and main() records it.
PkiChmod(p) ==
  /\ pc = "pki_chmod"
  /\ LET ok == {p.server_key, p.ca_cert, p.server_cert,
                p.dh_pem, p.tls_auth_key} \subseteq host.pki
         pki_message == IF loc.message # << >> THEN Join(loc.message, " | ")
                        ELSE "PKI already exists"
     IN /\ Run("chmod", IF ok THEN 0 ELSE 1)
        /\ IF ~ok
             THEN FailJson("Failed to set permissions: ") /\ UNCHANGED << changed, message, loc >>
             ELSE /\ changed' = TRUE
                  /\ message' = Append(message, pki_message)
                  /\ loc' = NoLoc
                  /\ pc' = "main_config"
                  /\ UNCHANGED outcome
  /\ UNCHANGED << params, configFile, cfgVars, host, pre, status, runs >>


\* --- the configure block ------------------------------------------------------
MainConfig(p) ==
  /\ pc = "main_config"
  /\ IF ConfigureRequested(p)
       THEN IF NotCheckMode(p)
              THEN pc' = "generate_server_config" /\ UNCHANGED message
              ELSE /\ message' = Append(message, "Would generate configuration")
                   /\ pc' = "main_service"
       ELSE pc' = "main_service" /\ UNCHANGED message
  /\ UNCHANGED << params, configFile, cfgVars, host, pre, changed, status,
                  outcome, log, loc, runs >>

\* generate_server_config as main() calls it; an exception of os.makedirs or
\* open reaches main()'s 'except Exception'.
MainGenerateConfig(p) ==
  /\ pc = "generate_server_config"
  /\ \E raised \in BOOLEAN :
       IF raised
         THEN /\ FailJson("Error: ")
              /\ UNCHANGED << configFile, changed, message, loc >>
         ELSE LET r == ServerConfigResult(p, configFile)
              IN /\ configFile' = r.file
                 /\ changed' = (changed \/ r.changed)
                 /\ message' = IF r.changed
                                 THEN Append(message, "Configuration written to " \o r.path)
                                 ELSE message
                 /\ pc' = IF p.enable_nat THEN "configure_nat" ELSE "main_ccd"
                 /\ loc' = IF p.enable_nat
                             THEN [fn |-> "configure_nat", caller |-> "main"]
                             ELSE loc
                 /\ UNCHANGED outcome
  /\ UNCHANGED << params, cfgVars, host, pre, status, log, runs >>

\* --- configure_nat ------------------------------------------------------------
MasqueradeRule(p) == "-A POSTROUTING -s " \o p.vpn_network \o " -o eth0 -j MASQUERADE"

SysctlCmd == "sysctl -w net.ipv4.ip_forward=1"
NatAppendCmd(p) ==
  "iptables -t nat -A POSTROUTING -s " \o p.vpn_network \o " -o eth0 -j MASQUERADE"
NatSaveCmd == "iptables-save > /etc/iptables/rules.v4"

\* configure_nat hands 'result' back: to main(), which records it, or to a
\* caller that called the function directly.
NatReturn(result) ==
  IF loc.caller = "main"
    THEN /\ IF result
              THEN /\ changed' = TRUE
                   /\ message' = Append(message, "NAT masquerading configured")
              ELSE UNCHANGED << changed, message >>
         /\ pc' = "main_ccd"
         /\ UNCHANGED ret
    ELSE /\ ret' = [called |-> TRUE, changed |-> result, path |-> ""]
         /\ pc' = "done"
         /\ UNCHANGED << changed, message >>

\* 'if not params['enable_nat']: return False'.
NatEntry(p) ==
  /\ pc = "configure_nat"
  /\ IF ~p.enable_nat
       THEN NatReturn(FALSE) /\ loc' = NoLoc
       ELSE pc' = "nat_sysctl" /\ UNCHANGED << ret, changed, message, loc >>
  /\ UNCHANGED << params, configFile, calls, lastParams, otherWrote, host, pre,
                  status, outcome, log, runs >>

NatSysctl(p) ==
  /\ pc = "nat_sysctl"
  /\ \E rc \in ExitCodes :
       /\ Run(SysctlCmd, rc)
       /\ host' = IF rc = 0 THEN [host EXCEPT !.ipForward = TRUE] ELSE host
  /\ pc' = "nat_iptables"
  /\ UNCHANGED << params, configFile, cfgVars, pre, changed, message, status,
                  outcome, loc, runs >>

NatIptables(p) ==
  /\ pc = "nat_iptables"
  /\ \E rc \in ExitCodes :
       /\ Run(NatAppendCmd(p), rc)
       /\ host' = IF rc = 0
                    THEN [host EXCEPT !.natRules = Append(@, MasqueradeRule(p))]
                    ELSE host
       /\ loc' = [fn |-> "configure_nat", caller |-> loc.caller, returncode |-> rc]
  /\ pc' = "nat_save"
  /\ UNCHANGED << params, configFile, cfgVars, pre, changed, message, status,
                  outcome, runs >>

\* Mutant of NatConfigured: the exit code of the append is not consulted.
NatConfiguredAlways(returncode) == TRUE

\* configure_nat's return value.
NatConfigured(returncode) == returncode = 0

NatSave(p) ==
  /\ pc = "nat_save"
  /\ \E rc \in ExitCodes :
       /\ Run(NatSaveCmd, rc)
       /\ host' = IF rc = 0 THEN [host EXCEPT !.savedRules = host.natRules] ELSE host
  /\ NatReturn(NatConfigured(loc.returncode))
  /\ loc' = NoLoc
  /\ UNCHANGED << params, configFile, calls, lastParams, otherWrote, pre,
                  status, outcome, runs >>

\* configure_nat called directly, as the unit test calls it, on the host as
\* the last invocation left it.
CallConfigureNat ==
  /\ pc = "done"
  /\ calls < MaxCalls
  /\ calls' = calls + 1
  /\ lastParams' = params
  /\ ret' = NoRet
  /\ pre' = [host |-> host, configFile |-> configFile]
  /\ pc' = "configure_nat"
  /\ loc' = [fn |-> "configure_nat", caller |-> "direct"]
  /\ changed' = FALSE
  /\ message' = << >>
  /\ status' = NoStatus
  /\ outcome' = NoOutcome
  /\ log' = << >>
  /\ UNCHANGED << params, configFile, otherWrote, host, runs >>

\* --- write_ccd_files as main() calls it -----------------------------------------
MainCcd(p) ==
  /\ pc = "main_ccd"
  /\ IF p.ccd # << >>
       THEN /\ pc' = "ccd_mkdir"
            /\ loc' = [fn |-> "write_ccd_files", i |-> 1, changed |-> FALSE,
                       messages |-> << >>, failed |-> FALSE, failedAt |-> 0]
       ELSE pc' = "main_service" /\ UNCHANGED loc
  /\ UNCHANGED << params, configFile, cfgVars, host, pre, changed, message,
                  status, outcome, log, runs >>

CcdMkdir(p) ==
  /\ pc = "ccd_mkdir"
  /\ \E raised \in BOOLEAN :
       IF raised
         THEN /\ FailJson("Failed to create ccd directory " \o p.ccd_dir \o ": ")
              /\ loc' = [loc EXCEPT !.failed = TRUE, !.failedAt = 0]
              /\ UNCHANGED host
         ELSE /\ host' = [host EXCEPT !.ccdDir = TRUE]
              /\ pc' = "ccd_loop"
              /\ UNCHANGED << loc, outcome >>
  /\ UNCHANGED << params, configFile, cfgVars, pre, changed, message, status,
                  log, runs >>

\* Mutant of CcdOnError: the exception is swallowed and the loop goes on
\* with the next client.
CcdOnErrorContinue(l, filename) ==
  [ pc |-> "ccd_loop", outcome |-> NoOutcome,
    loc |-> [l EXCEPT !.failed = TRUE, !.failedAt = l.i, !.i = l.i + 1] ]

\* The loop's 'except Exception': fail_json ends the invocation.
CcdOnError(l, filename) ==
  [ pc |-> "done",
    outcome |-> [kind |-> "fail_json",
                 msg |-> "Failed to write CCD file " \o filename \o ": "],
    loc |-> [l EXCEPT !.failed = TRUE, !.failedAt = l.i] ]

\* One pass of the loop for client loc.i.  The read, the write or the chmod
\* may raise: before anything is written, or after the file is written.
CcdLoopStep(p) ==
  /\ pc = "ccd_loop"
  /\ loc.i <= Len(p.ccd)
  /\ LET entry == p.ccd[loc.i]
         st == CcdIteration([files |-> host.ccd, changed |-> loc.changed,
                             messages |-> loc.messages], entry)
         err == CcdOnError(loc, p.ccd_dir \o "/" \o entry.client)
     IN \E how \in {"ok", "raise_before_write", "raise_after_write"} :
          IF how = "ok"
            THEN /\ host' = [host EXCEPT !.ccd = st.files]
                 /\ loc' = [loc EXCEPT !.i = @ + 1, !.changed = st.changed,
                                       !.messages = st.messages]
                 /\ UNCHANGED << pc, outcome >>
            ELSE /\ host' = IF how = "raise_after_write"
                              THEN [host EXCEPT !.ccd = st.files] ELSE host
                 /\ pc' = err.pc
                 /\ outcome' = err.outcome
                 /\ loc' = err.loc
  /\ UNCHANGED << params, configFile, cfgVars, pre, changed, message, status,
                  log, runs >>

\* The loop is over: write_ccd_files returns (changed, message).
CcdReturn(p) ==
  /\ pc = "ccd_loop"
  /\ loc.i > Len(p.ccd)
  /\ IF loc.changed
       THEN /\ changed' = TRUE
            /\ message' = Append(message, Join(loc.messages, " | "))
       ELSE UNCHANGED << changed, message >>
  /\ pc' = "main_service"
  /\ UNCHANGED << params, configFile, cfgVars, host, pre, status, outcome,
                  log, loc, runs >>

\* --- manage_service -----------------------------------------------------------
MainService(p) ==
  /\ pc = "main_service"
  /\ IF ServiceRequested(p)
       THEN IF NotCheckMode(p)
              THEN pc' = "manage_service" /\ UNCHANGED message
              ELSE /\ message' = Append(message, "Would " \o p.action \o " service")
                   /\ pc' = "exit_json"
       ELSE pc' = "exit_json" /\ UNCHANGED message
  /\ UNCHANGED << params, configFile, cfgVars, host, pre, changed, status,
                  outcome, log, loc, runs >>

ServiceCommand(action) == "systemctl " \o action \o " openvpn@server"
StatusOutput(h) == IF h.running THEN "active (running)" ELSE "inactive (dead)"

\* What manage_service may return as its second value: stdout for 'status'
\* (empty when systemctl could not report), stdout + stderr otherwise.
ServiceOutputs(action, h, rc) ==
  IF action = "status"
    THEN IF rc = 0 THEN {StatusOutput(h)} ELSE {StatusOutput(h), ""}
    ELSE IF rc = 0 THEN {""} ELSE {"Job for openvpn@server.service failed."}

\* manage_service's first return value.
ServiceSuccess(action, returncode) ==
  IF action = "status" THEN TRUE ELSE returncode = 0

\* Mutant of StatusOf: the output of every service action is kept as status.
StatusOfAnyAction(action, output, old) == output

\* 'if params['action'] == 'status': status = output'.
StatusOf(action, output, old) ==
  IF action = "status" THEN output ELSE old

ManageService(p) ==
  /\ pc = "manage_service"
  /\ \E rc \in ExitCodes :
       \E output \in ServiceOutputs(p.action, host, rc) :
         /\ Run(ServiceCommand(p.action), rc)
         /\ host' = IF rc = 0 /\ p.action # "status"
                      THEN [host EXCEPT !.running = (p.action # "stop"),
                                        !.svcOps = @ + 1]
                      ELSE host
         /\ status' = StatusOf(p.action, output, status)
         /\ IF p.action # "status" /\ ServiceSuccess(p.action, rc)
              THEN /\ changed' = TRUE
                   /\ message' = Append(message,
                        "Service " \o p.action \o " successful")
              ELSE UNCHANGED << changed, message >>
  /\ pc' = "exit_json"
  /\ UNCHANGED << params, configFile, cfgVars, pre, outcome, loc, runs >>

\* --- module.exit_json -----------------------------------------------------------
ExitJson(p) ==
  /\ pc = "exit_json"
  /\ outcome' = [ kind |-> "exit_json",
                  changed |-> changed,
                  message |-> IF message # << >> THEN Join(message, " | ")
                              ELSE "No changes",
                  status |-> status,
                  config_path |-> p.config_file ]
  /\ pc' = "done"
  /\ UNCHANGED << params, configFile, cfgVars, host, pre, changed, message,
                  status, log, loc, runs >>

\* One step of main() and the functions it calls, reading its options from p.
MainStep(p) ==
  \/ MainInstall(p) \/ InstallOpenvpn(p)
  \/ MainPki(p) \/ PkiBegin(p) \/ PkiInit(p) \/ PkiBuildCa(p)
  \/ PkiGenReq(p) \/ PkiSignReq(p)
  \/ PkiGenDh(p) \/ PkiTlsKey(p) \/ PkiCopy(p) \/ PkiChmod(p)
  \/ MainConfig(p) \/ MainGenerateConfig(p)
  \/ NatEntry(p) \/ NatSysctl(p) \/ NatIptables(p) \/ NatSave(p)
  \/ MainCcd(p) \/ CcdMkdir(p) \/ CcdLoopStep(p) \/ CcdReturn(p)
  \/ MainService(p) \/ ManageService(p)
  \/ ExitJson(p)

\* The module is invoked again with the same options (a playbook re-run).
Reinvoke ==
  /\ pc = "done"
  /\ runs < MaxRuns
  /\ runs' = runs + 1
  /\ pre' = [host |-> host, configFile |-> configFile]
  /\ pc' = "main_install"
  /\ changed' = FALSE
  /\ message' = << >>
  /\ status' = NoStatus
  /\ outcome' = NoOutcome
  /\ log' = << >>
  /\ loc' = NoLoc
  /\ UNCHANGED << params, configFile, cfgVars, host >>

(***************************************************************************)
(* Spec: invocations of main() on a host.                                  *)
(***************************************************************************)
\* Values of the config_file option: the default and another path.
ConfigPaths == {"/etc/openvpn/server.conf", "/etc/openvpn/vpn0.conf"}

MainParams ==
  { [DefaultParams EXCEPT !.mode = m, !.action = a, !.check_mode = k,
                          !.generate_pki = g, !.enable_nat = n,
                          !.ccd = c, !.state = st, !.config_file = f] :
      m \in {"server", "client"}, a \in Actions, k \in BOOLEAN, g \in BOOLEAN,
      n \in BOOLEAN, c \in CcdMaps, st \in States, f \in ConfigPaths }

\* The options that reach main(): every mode, action, check mode, PKI and NAT
\* flag; the CCD mapping and the state vary with 'configure'.
InvocationParams ==
  { p \in MainParams :
      p.action # "configure" => (Len(p.ccd) = 2 /\ p.ccd[1].client = "client1"
                                 /\ p.state = "present") }

\* A host with the packages installed and the PKI generated.
InstalledHost ==
  [FreshHost EXCEPT !.pkgs = {"openvpn", "easy-rsa"}, !.pki = AllPki(DefaultParams)]

\* CCD files as an earlier configure run with the third mapping left them.
EarlierCcd ==
  [c \in Clients |->
     [exists |-> TRUE, writes |-> 0,
      content |-> IF c = "client1" THEN "ifconfig-push 10.8.0.10 255.255.255.255\n"
                  ELSE "ifconfig-push 10.8.0.11 255.255.255.255\n"]]

\* The hosts an invocation may find: for install, every operating system and
\* state of packages and PKI; for configure, an installed host with or without
\* earlier CCD files; for the service actions, a stopped or a running service.
HostsFor(p) ==
  IF p.action = "install"
    THEN { [FreshHost EXCEPT !.os = o, !.pkgs = k, !.pki = a] :
             o \in {"debian", "redhat", "other"},
             k \in {{}, {"openvpn"}, {"openvpn", "easy-rsa"}},
             a \in {{}, {p.pki_dir, PkiRoot(p), CaCrt(p)}, AllPki(DefaultParams)} }
  ELSE IF p.action = "configure"
    THEN { [InstalledHost EXCEPT !.ccdDir = d, !.ccd = IF d THEN EarlierCcd ELSE @] :
             d \in BOOLEAN }
  ELSE { [InstalledHost EXCEPT !.running = r] : r \in BOOLEAN }

ConfigFilesFor(p) ==
  IF p.action = "install" THEN {NoFile}
  ELSE { NoFile,
         [exists |-> TRUE, content |-> ForeignContent, writes |-> 0],
         [exists |-> TRUE, content |-> RenderConfig(p), writes |-> 0] }

InitInvocation ==
  /\ host \in HostsFor(params)
  /\ configFile \in ConfigFilesFor(params)
  /\ pre = [host |-> host, configFile |-> configFile]
  /\ pc = "main_install"
  /\ changed = FALSE
  /\ message = << >>
  /\ status = NoStatus
  /\ outcome = NoOutcome
  /\ log = << >>
  /\ loc = NoLoc
  /\ runs = 1
  /\ ret = NoRet
  /\ calls = 0
  /\ lastParams = NoParams
  /\ otherWrote = FALSE

Init == params \in InvocationParams /\ InitInvocation

Next ==
  \/ MainInstall(params) \/ InstallOpenvpn(params)
  \/ MainPki(params) \/ PkiBegin(params) \/ PkiInit(params) \/ PkiBuildCa(params)
  \/ PkiGenReq(params) \/ PkiSignReq(params)
  \/ PkiGenDh(params) \/ PkiTlsKey(params) \/ PkiCopy(params) \/ PkiChmod(params)
  \/ MainConfig(params) \/ MainGenerateConfig(params)
  \/ NatEntry(params) \/ NatSysctl(params) \/ NatIptables(params) \/ NatSave(params)
  \/ MainCcd(params) \/ CcdMkdir(params) \/ CcdLoopStep(params) \/ CcdReturn(params)
  \/ MainService(params) \/ ManageService(params)
  \/ ExitJson(params)

Spec == Init /\ [][Next]_vars

(***************************************************************************)
(* SpecRerun: the configure action invoked again and again with the same   *)
(* options.                                                                *)
(***************************************************************************)
RerunParams ==
  { p \in MainParams :
      /\ p.action = "configure" /\ p.mode = "server" /\ ~p.generate_pki
      /\ p.ccd = << >> /\ p.state = "present" }

InitRerun == params \in RerunParams /\ InitInvocation

NextRerun ==
  \/ MainInstall(params) \/ MainPki(params)
  \/ MainConfig(params) \/ MainGenerateConfig(params)
  \/ NatEntry(params) \/ NatSysctl(params) \/ NatIptables(params) \/ NatSave(params)
  \/ MainCcd(params) \/ MainService(params)
  \/ ExitJson(params) \/ Reinvoke \/ CallConfigureNat

SpecRerun == InitRerun /\ [][NextRerun]_vars


(***************************************************************************)
(* SpecPki: the install action with generate_pki set, invoked again after  *)
(* it ended, on hosts with none, some or all of the PKI artifacts.         *)
(***************************************************************************)
PkiParams ==
  { p \in MainParams :
      /\ p.action = "install" /\ p.generate_pki /\ p.mode = "server"
      /\ p.enable_nat /\ p.ccd = << >> /\ p.state = "present"
      /\ p.config_file = DefaultParams.config_file }

\* A fresh host, a host without Easy-RSA, and hosts with both packages on
\* which no artifact, only the TLS key, the CA and DH parameters, or every
\* artifact exists.
PkiHosts(p) ==
  { FreshHost, [FreshHost EXCEPT !.pkgs = {"openvpn"}] }
  \cup { [FreshHost EXCEPT !.pkgs = {"openvpn", "easy-rsa"}, !.pki = a] :
           a \in { {}, {p.tls_auth_key},
                   {p.pki_dir, PkiRoot(p), CaCrt(p), DhPem(p)},
                   AllPki(p) } }

InitPki ==
  /\ params \in PkiParams
  /\ host \in PkiHosts(params)
  /\ configFile = NoFile
  /\ pre = [host |-> host, configFile |-> configFile]
  /\ pc = "main_install"
  /\ changed = FALSE
  /\ message = << >>
  /\ status = NoStatus
  /\ outcome = NoOutcome
  /\ log = << >>
  /\ loc = NoLoc
  /\ runs = 1
  /\ ret = NoRet
  /\ calls = 0
  /\ lastParams = NoParams
  /\ otherWrote = FALSE

NextPki ==
  \/ MainInstall(params) \/ InstallOpenvpn(params)
  \/ MainPki(params) \/ PkiBegin(params) \/ PkiInit(params) \/ PkiBuildCa(params)
  \/ PkiGenReq(params) \/ PkiSignReq(params)
  \/ PkiGenDh(params) \/ PkiTlsKey(params) \/ PkiCopy(params) \/ PkiChmod(params)
  \/ MainConfig(params) \/ MainService(params)
  \/ ExitJson(params) \/ Reinvoke

SpecPki == InitPki /\ [][NextPki]_vars

(***************************************************************************)
(* Claims about main().                                                    *)
(***************************************************************************)
\* The command steps C1 lists: every logged command but the 'which' probes,
\* 'systemctl status' and the in-process copy and chmod.
IsCommandStep(cmd) ==
  /\ ~StartsWith(cmd, "which ")
  /\ cmd # ServiceCommand("status")
  /\ cmd \notin {"copy", "chmod"}

\* C1: if an external command step exits non-zero, the invocation ends in
\* fail_json, never in exit_json, and no later step is executed.
C1_FailStop ==
  \A i \in 1..Len(log) :
    (IsCommandStep(log[i].cmd) /\ log[i].rc # 0)
      => /\ i = Len(log)
         /\ outcome.kind # "exit_json"
         /\ pc = "done" => outcome.kind = "fail_json"

\* What the code does: the package install and the PKI commands stop the
\* invocation with fail_json; sysctl, iptables, iptables-save and systemctl
\* do not.
IsFailStopCommand(cmd) ==
  /\ IsCommandStep(cmd)
  /\ ~StartsWith(cmd, "sysctl ")
  /\ ~StartsWith(cmd, "iptables")
  /\ ~StartsWith(cmd, "systemctl ")

C1_InstallAndPkiFailStop ==
  \A i \in 1..Len(log) :
    (IsFailStopCommand(log[i].cmd) /\ log[i].rc # 0)
      => i = Len(log) /\ outcome.kind = "fail_json" /\ pc = "done"

\* The entries main() appends in check mode.
WouldMessages(p, h) ==
  Opt(InstallNeeded(p, h), "OpenVPN installed")
  \o Opt(PkiRequested(p), "Would generate PKI")
  \o Opt(ConfigureRequested(p), "Would generate configuration")
  \o Opt(ServiceRequested(p), "Would " \o p.action \o " service")

\* C2: in check mode no step mutates the host: packages, PKI files, the
\* server config file, CCD files, iptables/ip_forward and the service are as
\* they were when the invocation started, no command but 'which openvpn' is
\* run, and the message names the actions the run would have taken.
C2_CheckModeFrame ==
  params.check_mode =>
    /\ host = pre.host
    /\ configFile = pre.configFile
    /\ \A i \in 1..Len(log) : log[i].cmd = "which openvpn"
    /\ outcome.kind # "fail_json"
    /\ outcome.kind = "exit_json" =>
         outcome.message =
           (IF WouldMessages(params, pre.host) = << >> THEN "No changes"
            ELSE Join(WouldMessages(params, pre.host), " | "))

C2_Witness ==
  /\ params.check_mode
  /\ params.action = "configure"
  /\ params.ccd # << >>
  /\ params.enable_nat
  /\ ~configFile.exists
  /\ outcome.kind = "exit_json"
  /\ outcome.message = "Would generate configuration"

\* Whether the invocation modified the host, as C3 lists it: a package
\* installed, a PKI artifact generated or copied, config content differing
\* from before, an iptables rule added, a CCD file written, the service
\* started, stopped or restarted.
Modified ==
  \/ host.pkgs # pre.host.pkgs
  \/ host.pki # pre.host.pki
  \/ configFile.exists # pre.configFile.exists
  \/ configFile.content # pre.configFile.content
  \/ host.natRules # pre.host.natRules
  \/ \E c \in Clients : host.ccd[c].writes # pre.host.ccd[c].writes
  \/ host.svcOps # pre.host.svcOps

\* C3: in every invocation that ends in exit_json, changed is true if and
\* only if some step modified the host; in particular it is false in check
\* mode and when generate_pki finds every artifact present.
C3_ChangedIffModified ==
  outcome.kind = "exit_json" =>
    /\ outcome.changed <=> Modified
    /\ params.check_mode => ~outcome.changed

\* C10: if creating the CCD directory or handling one client's CCD file
\* fails, the invocation ends in fail_json: it never reaches exit_json and
\* no CCD file of a later client is written.
C10_CcdFailureIsFatal ==
  (loc.fn = "write_ccd_files" /\ loc.failed) =>
    /\ pc = "done"
    /\ outcome.kind = "fail_json"
    /\ \A j \in (loc.failedAt + 1)..Len(params.ccd) :
         host.ccd[params.ccd[j].client] = pre.host.ccd[params.ccd[j].client]

C10_Witness ==
  /\ loc.fn = "write_ccd_files"
  /\ loc.failed
  /\ loc.failedAt = 1
  /\ Len(params.ccd) = 2
  /\ host.ccd[params.ccd[1].client].writes = 1
  /\ ~host.ccd[params.ccd[2].client].exists
  /\ outcome.kind = "fail_json"

\* C11: in every successful result of main() the status field holds the
\* output of 'systemctl status' exactly when the action is 'status' and check
\* mode is off, and is None for every other action; config_path equals the
\* config_file option; and a 'status' action never reports changed = true.
C11_StatusOnlyForStatus ==
  outcome.kind = "exit_json" =>
    /\ (outcome.status # NoStatus)
         <=> (params.action = "status" /\ ~params.check_mode)
    /\ (params.action = "status" /\ ~params.check_mode) =>
         /\ Len(log) = 2
         /\ log[2].cmd = ServiceCommand("status")
         /\ outcome.status \in ServiceOutputs("status", pre.host, log[2].rc)
    /\ outcome.config_path = params.config_file
    /\ params.action = "status" => ~outcome.changed

C11_Witness ==
  /\ outcome.kind = "exit_json"
  /\ params.action = "status"
  /\ ~params.check_mode
  /\ outcome.status = "active (running)"
  /\ outcome.config_path = "/etc/openvpn/vpn0.conf"
  /\ ~outcome.changed
  /\ outcome.message = "No changes"

(***************************************************************************)
(* Claims about generate_pki.                                              *)
(***************************************************************************)
\* The steps of generate_pki in the order of the code; the copy loop and
\* the chmod block are logged as "copy" and "chmod".
PkiStepCmds(p) ==
  << InitPkiCmd(p), BuildCaCmd(p), GenReqCmd(p), SignReqCmd(p), GenDhCmd(p),
     GenKeyCmd(p), "copy", "chmod" >>

StepIndex(p, cmd) ==
  IF \E k \in 1..Len(PkiStepCmds(p)) : PkiStepCmds(p)[k] = cmd
    THEN CHOOSE k \in 1..Len(PkiStepCmds(p)) : PkiStepCmds(p)[k] = cmd
    ELSE 0

\* The file each generation step produces.
ArtifactOf(p) ==
  << PkiRoot(p), CaCrt(p), PrivateKey(p), IssuedCrt(p), DhPem(p), p.tls_auth_key >>

\* The file whose absence lets each generation step run: gen-req and
\* sign-req are both under the check of the issued server certificate.
GuardOf(p) ==
  << PkiRoot(p), CaCrt(p), IssuedCrt(p), IssuedCrt(p), DhPem(p), p.tls_auth_key >>

\* The step taken invokes cmd.
Invoked(cmd) ==
  /\ Len(log') = Len(log) + 1
  /\ log'[Len(log')].cmd = cmd

\* Every generation step that is invoked finds its file of 'files' absent.
PkiGuarded(files) ==
  \A k \in 1..Len(files) :
    Invoked(PkiStepCmds(params)[k]) => files[k] \notin host.pki

\* Order, sign-req after a successful gen-req, stop at the first failure,
\* nothing removed.
PkiOrderAndStop ==
  LET idx == [i \in 1..Len(log) |-> StepIndex(params, log[i].cmd)]
  IN /\ \A i, j \in 1..Len(log) :
          (i < j /\ idx[i] > 0 /\ idx[j] > 0) => idx[i] < idx[j]
     /\ \A j \in 1..Len(log) :
          log[j].cmd = SignReqCmd(params)
            => j > 1 /\ log[j - 1] = [cmd |-> GenReqCmd(params), rc |-> 0]
     /\ \A i \in 1..Len(log) :
          (idx[i] > 0 /\ log[i].rc # 0)
            => i = Len(log) /\ pc = "done" /\ outcome.kind = "fail_json"
     /\ pre.host.pki \subseteq host.pki
     /\ \A i \in 1..Len(log) :
          (idx[i] \in 1..6 /\ log[i].rc = 0) => ArtifactOf(params)[idx[i]] \in host.pki
     /\ GuardOf(params) \in [1..6 -> pre.host.pki]
          => \A i \in 1..Len(log) : idx[i] \notin 1..6

\* C12 as stated: generate_pki runs its steps in the fixed order init-pki,
\* build-ca, gen-req, sign-req, gen-dh, TLS key, copy, permissions; each
\* generation step is invoked only when the artifact it produces does not
\* exist; sign-req only follows a gen-req that exited zero in the same run;
\* the first failing step ends the run in fail_json with no later step and
\* the artifacts of earlier steps in place.
C12_PkiOwnArtifact ==
  []PkiOrderAndStop /\ [][PkiGuarded(ArtifactOf(params))]_vars

\* C12, amended: as above, with each generation step invoked only when the
\* file its existence check names is absent: pki/ for init-pki, ca.crt for
\* build-ca, the issued server certificate for gen-req and for sign-req,
\* dh.pem for gen-dh, the TLS key for its generation.
C12_PkiSequence ==
  []PkiOrderAndStop /\ [][PkiGuarded(GuardOf(params))]_vars

\* A second run on a host where the first run's sign-req failed: the CA is
\* skipped, gen-req runs although the server key exists, sign-req fails
\* again and the run stops there with the key in place.
C12_Witness ==
  /\ runs = 2
  /\ PrivateKey(params) \in pre.host.pki
  /\ IssuedCrt(params) \notin host.pki
  /\ Len(log) = 4
  /\ log[3] = [cmd |-> GenReqCmd(params), rc |-> 0]
  /\ log[4] = [cmd |-> SignReqCmd(params), rc |-> 1]
  /\ outcome.kind = "fail_json"
  /\ outcome.msg = "Failed to sign server certificate: "
  /\ PrivateKey(params) \in host.pki

(***************************************************************************)
(* Claims about which resources each action touches.                       *)
(***************************************************************************)
InstallCommands ==
  { InstallCommand([os |-> o]) : o \in {"debian", "redhat"} }

IsPkiCommand(cmd) == StepIndex(params, cmd) > 0 \/ cmd = "which easyrsa"
IsNatCommand(cmd) == StartsWith(cmd, "sysctl ") \/ StartsWith(cmd, "iptables")
IsServiceCommand(cmd) == StartsWith(cmd, "systemctl ")

PkgsSame == host.pkgs = pre.host.pkgs
PkiSame == host.pki = pre.host.pki
ConfigSame == configFile = pre.configFile
CcdSame == host.ccd = pre.host.ccd /\ host.ccdDir = pre.host.ccdDir
NatSame ==
  /\ host.ipForward = pre.host.ipForward
  /\ host.natRules = pre.host.natRules
  /\ host.savedRules = pre.host.savedRules
ServiceSame == host.running = pre.host.running /\ host.svcOps = pre.host.svcOps

OtherMode(m) == IF m = "server" THEN "client" ELSE "server"
WithOtherMode(p) == [p EXCEPT !.mode = OtherMode(@)]

\* Which commands an invocation runs and which resources it leaves alone,
\* by action.
ActionFrame ==
  /\ \A i \in 1..Len(log) :
       /\ log[i].cmd \in InstallCommands
            => /\ params.action = "install"
               /\ i = 2 /\ log[1].cmd = "which openvpn" /\ log[1].rc # 0
       /\ IsPkiCommand(log[i].cmd)
            => params.action = "install" /\ params.generate_pki
       /\ IsNatCommand(log[i].cmd) => params.action = "configure"
       /\ IsServiceCommand(log[i].cmd)
            => /\ params.action \in {"start", "stop", "restart", "status"}
               /\ log[i].cmd = ServiceCommand(params.action)
  /\ ~PkgsSame => params.action = "install"
  /\ ~PkiSame => params.action = "install" /\ params.generate_pki
  /\ ~(ConfigSame /\ CcdSame /\ NatSame) => params.action = "configure"
  /\ ~ServiceSame => params.action \in {"start", "stop", "restart"}
  /\ params.action \in ServiceActions
       => ConfigSame /\ CcdSame /\ PkiSame /\ NatSame
  /\ params.action = "configure" => PkgsSame /\ PkiSame /\ ServiceSame

\* The invocations with the other mode start from the same states.
ModeFreeStart ==
  (pc = "main_install" /\ log = << >>) =>
    /\ WithOtherMode(params) \in InvocationParams
    /\ HostsFor(WithOtherMode(params)) = HostsFor(params)
    /\ ConfigFilesFor(WithOtherMode(params)) = ConfigFilesFor(params)

RECURSIVE NatCommandsOf(_)
NatCommandsOf(l) ==
  IF l = << >> THEN << >>
  ELSE IF IsNatCommand(Head(l).cmd)
         THEN << Head(l) >> \o NatCommandsOf(Tail(l))
         ELSE NatCommandsOf(Tail(l))

\* The three commands of configure_nat, in the order of the code.
NatSequence(p) == << SysctlCmd, NatAppendCmd(p), NatSaveCmd >>

\* A direct call of configure_nat has returned.
DirectReturned == pc = "done" /\ outcome = NoOutcome /\ ret.called

\* main() is past its configure block, which it entered.
MainPastConfigure ==
  /\ params.action = "configure" /\ ~params.check_mode
  /\ \/ pc \in {"main_ccd", "main_service", "exit_json"}
     \/ pc = "done" /\ outcome.kind = "exit_json"

NatReported == \E i \in 1..Len(message) : message[i] = "NAT masquerading configured"

\* C14: with enable_nat false configure_nat runs no command and returns
\* false; with enable_nat true it runs sysctl ip_forward, one iptables
\* MASQUERADE append for vpn_network and iptables-save, in this order and
\* whatever rules exist already, and returns true exactly when the append
\* exited zero.  So every configure invocation whose append exits zero adds
\* one more rule, identical to those of the invocations before it, and
\* reports changed = true with 'NAT masquerading configured'.
C14_NatAppendsEveryRun ==
  LET nat == NatCommandsOf(log)
      seq == NatSequence(params)
      rule == MasqueradeRule(params)
  IN /\ Len(nat) <= 3
     /\ \A i \in 1..Len(nat) : nat[i].cmd = seq[i]
     /\ \A i \in 1..Len(host.natRules) : host.natRules[i] = rule
     /\ (DirectReturned \/ MainPastConfigure) =>
          IF ~params.enable_nat
            THEN /\ nat = << >>
                 /\ NatSame
                 /\ DirectReturned => ~ret.changed
                 /\ MainPastConfigure => ~NatReported
            ELSE /\ Len(nat) = 3
                 /\ DirectReturned => (ret.changed <=> nat[2].rc = 0)
                 /\ MainPastConfigure => (NatReported <=> nat[2].rc = 0)
                 /\ (MainPastConfigure /\ nat[2].rc = 0) => changed
                 /\ host.natRules =
                      IF nat[2].rc = 0 THEN Append(pre.host.natRules, rule)
                      ELSE pre.host.natRules
     /\ (outcome.kind = "exit_json" /\ ~params.check_mode /\ params.enable_nat
           /\ Len(nat) = 3 /\ nat[2].rc = 0)
          => /\ outcome.changed
             /\ NatReported
             /\ outcome.message = Join(message, " | ")

\* The second of two configure invocations with the same options, each with
\* a successful append: the table holds the rule twice and the invocation
\* reports NAT configured although the file was already up to date.
C14_Witness ==
  /\ runs = 2
  /\ calls = 0
  /\ params.enable_nat
  /\ ~params.check_mode
  /\ outcome.kind = "exit_json"
  /\ outcome.changed
  /\ outcome.message = "NAT masquerading configured"
  /\ host.natRules = << MasqueradeRule(params), MasqueradeRule(params) >>
  /\ pre.host.natRules = << MasqueradeRule(params) >>

=============================================================================
